---- MODULE Spec2Model ----
(***************************************************************************)
(* Model of vtk_to_dxf.py: the STL -> DXF command-line converter.          *)
(*                                                                         *)
(* The program is sequential.  Its state is the position of the single     *)
(* thread of control (pc), the locals of main, process_directory and       *)
(* convert_stl_to_dxf, and the part of the environment the code reads or   *)
(* writes: the file system below the input directory, the directories on   *)
(* the output side, whether pymeshlab can be imported, and whether pathlib *)
(* globbing is case sensitive on the platform.  The mesh library is opaque:*)
(* each load and each save either returns or raises.                       *)
(*                                                                         *)
(* A file name is a sequence of one-character strings, a path (pathlib's   *)
(* Path) is a sequence of names, and a str path is the sequence of         *)
(* characters of the names joined by "/".                                  *)
(***************************************************************************)
EXTENDS Integers, Sequences, FiniteSets, TLC

VARIABLES
    fs,            \* entries below the input directory: [dir, name, kind]
    dirs,          \* directories (Paths) that exist outside the input tree
    made,          \* history: the arguments of the mkdir calls
    libPresent,    \* "import pymeshlab" succeeds
    caseSensitive, \* pathlib glob matching is case sensitive (POSIX) or not
    argInput,      \* args.input  (str)
    argOutput,     \* args.output (str or None)
    noRecursive,   \* args.no_recursive
    pc,            \* position of the thread of control
    mode,          \* "none", "single" or "batch": the branch main dispatched to
    stl_files,     \* process_directory: list of Paths
    i,             \* process_directory: number of loop iterations started
    successful,    \* process_directory: counter
    failed,        \* process_directory: counter
    input_path,    \* convert_stl_to_dxf: parameter (str)
    output_path,   \* convert_stl_to_dxf: parameter (str or None)
    result,        \* convert_stl_to_dxf: returned value
    tally,         \* what process_directory returned to main: <<>> before, then
                   \* <<successful, failed>>
    exitCode,      \* process exit status: <<>> while running, then <<status>>
    log            \* history: calls of the converter and of the library

vars == <<fs, dirs, made, libPresent, caseSensitive, argInput, argOutput, noRecursive,
          pc, mode, stl_files, i, successful, failed, input_path, output_path,
          result, tally, exitCode, log>>

\* Python's None, among str values: no str, since a str is a sequence of characters
None == <<"None">>

\* Largest number of entries below the input directory
MaxEntries == 3

-----------------------------------------------------------------------------
(* Names used to populate the file system *)

A_STL     == <<"a", ".", "s", "t", "l">>
B_STL_UP  == <<"B", ".", "S", "T", "L">>
M_TAR_STL == <<"m", ".", "t", ".", "s", "t", "l">>
DOT_STL   == <<".", "s", "t", "l">>
N_TXT     == <<"n", ".", "t", "x", "t">>
SUB       == <<"s", "u", "b">>
D_STL     == <<"d", ".", "s", "t", "l">>
FIFO      == <<"p">>
IN_DIR    == <<"i", "n">>
OUT_DIR   == <<"o", "u", "t">>
DXF       == <<".", "d", "x", "f">>
STL       == <<".", "s", "t", "l">>

-----------------------------------------------------------------------------
(* Strings and paths *)

\* str.lower() on one character of the alphabet in use
LowerChar(c) ==
    CASE c = "B" -> "b"
      [] c = "S" -> "s"
      [] c = "T" -> "t"
      [] c = "L" -> "l"
      [] OTHER   -> c

\* str.lower()
Lower(s) == [k \in 1..Len(s) |-> LowerChar(s[k])]

\* str.rfind('.'), 1-based; 0 when there is no dot
RFindDot(s) ==
    LET D == {k \in 1..Len(s) : s[k] = "."}
    IN  IF D = {} THEN 0 ELSE CHOOSE k \in D : \A j \in D : j <= k

\* PurePath.suffix applied to a name: the last dot and what follows it, unless
\* the dot is the first or the last character of the name
Suffix(name) ==
    LET d == RFindDot(name)
    IN  IF 1 < d /\ d < Len(name) THEN SubSeq(name, d, Len(name)) ELSE <<>>

\* PurePath.stem applied to a name
Stem(name) ==
    LET d == RFindDot(name)
    IN  IF 1 < d /\ d < Len(name) THEN SubSeq(name, 1, d - 1) ELSE name

\* PurePath.name
Name(p) == IF p = <<>> THEN <<>> ELSE p[Len(p)]

\* PurePath.parent
Parent(p) == IF p = <<>> THEN <<>> ELSE SubSeq(p, 1, Len(p) - 1)

\* PurePath.with_suffix(suffix): the old suffix is cut off the name when there
\* is one, and the new suffix is appended
WithSuffix(p, suffix) ==
    LET name == Name(p)
        old  == Suffix(name)
    IN  Parent(p) \o <<SubSeq(name, 1, Len(name) - Len(old)) \o suffix>>

\* str(Path): the names joined by "/"
RECURSIVE Str(_)
Str(p) ==
    IF p = <<>> THEN <<>>
    ELSE IF Len(p) = 1 THEN p[1]
    ELSE p[1] \o <<"/">> \o Str(Tail(p))

\* Path(str): the str split at "/", empty names dropped
RECURSIVE Split(_, _, _)
Split(s, k, cur) ==
    IF k > Len(s) THEN (IF cur = <<>> THEN <<>> ELSE <<cur>>)
    ELSE IF s[k] = "/" THEN (IF cur = <<>> THEN <<>> ELSE <<cur>>) \o Split(s, k + 1, <<>>)
    ELSE Split(s, k + 1, Append(cur, s[k]))

PathOf(s) == Split(s, 1, <<>>)

\* Path / Path (the right operand is relative)
Join(p, q) == p \o q

IsPrefix(b, p) == Len(b) <= Len(p) /\ SubSeq(p, 1, Len(b)) = b

\* PurePath.relative_to(base); the code applies it to paths below base only
RelativeTo(p, base) ==
    IF IsPrefix(base, p) THEN SubSeq(p, Len(base) + 1, Len(p)) ELSE p

\* bool(x) of a str-or-None value
Truthy(x) == x # None /\ x # <<>>

-----------------------------------------------------------------------------
(* The file system *)

\* Relative Path of an entry below the input directory
RelPath(e) == Append(e.dir, e.name)

Entry(d, n, k) == [dir |-> d, name |-> n, kind |-> k]

FileNames == {A_STL, B_STL_UP, M_TAR_STL, DOT_STL, N_TXT}

\* The entries the input directory may hold
Universe ==
    {Entry(<<>>, n, "file") : n \in FileNames}
    \cup {Entry(<<>>, SUB, "dir"), Entry(<<>>, D_STL, "dir"), Entry(<<SUB>>, SUB, "dir")}
    \cup {Entry(<<SUB>>, A_STL, "file"), Entry(<<D_STL>>, A_STL, "file"),
          Entry(<<SUB, SUB>>, A_STL, "file")}

\* every entry lies in a directory that exists
Closed(t) ==
    \A e \in t : e.dir # <<>> =>
        \E d \in t : d.kind = "dir" /\ RelPath(d) = e.dir

RECURSIVE SetsUpTo(_)
SetsUpTo(n) ==
    IF n = 0 THEN {{}}
    ELSE LET P == SetsUpTo(n - 1) IN P \cup {p \cup {e} : p \in P, e \in Universe}

Trees == {t \in SetsUpTo(MaxEntries) : Closed(t)}


\* Path.exists(), Path.is_file(), Path.is_dir() of a Path; the input directory
\* itself always exists
EntryAt(fsys, p) == {e \in fsys : Join(<<IN_DIR>>, RelPath(e)) = p}

Exists(fsys, ds, p) == p = <<IN_DIR>> \/ p \in ds \/ EntryAt(fsys, p) # {}

IsFile(fsys, p) == \E e \in EntryAt(fsys, p) : e.kind = "file"

IsDir(fsys, ds, p) ==
    p = <<IN_DIR>> \/ p \in ds \/ \E e \in EntryAt(fsys, p) : e.kind = "dir"

\* fnmatch of a name against the pattern '*.stl', as pathlib's glob applies it:
\* case sensitive on POSIX, case insensitive on Windows
GlobMatch(name, cs) ==
    /\ Len(name) >= Len(STL)
    /\ LET tail == SubSeq(name, Len(name) - Len(STL) + 1, Len(name))
       IN  IF cs THEN tail = STL ELSE Lower(tail) = STL

\* input_path.glob('*.stl'): the matching entries of the directory itself, of
\* any kind
Glob(fsys, base, cs) ==
    {Join(base, RelPath(e)) : e \in {x \in fsys : x.dir = <<>> /\ GlobMatch(x.name, cs)}}

\* input_path.rglob('*.stl'): the matching entries at any depth, of any kind
RGlob(fsys, base, cs) ==
    {Join(base, RelPath(e)) : e \in {x \in fsys : GlobMatch(x.name, cs)}}

\* list(generator): the platform decides the order of a directory listing
Listings(S) ==
    {s \in [1..Cardinality(S) -> S] : \A a, b \in 1..Cardinality(S) : s[a] = s[b] => a = b}

\* Path.mkdir(parents=True, exist_ok=True): the directory and its ancestors exist
Mkdir(ds, p) == ds \cup {SubSeq(p, 1, k) : k \in 1..Len(p)}

\* MirroredPath built from the file's name instead of its relative path
MirroredPathFlat(output_dir, stl_file, base) ==
    Join(PathOf(output_dir), WithSuffix(<<Name(stl_file)>>, DXF))

\* the output path process_directory computes for one file
MirroredPath(output_dir, stl_file, base) ==
    Join(PathOf(output_dir), WithSuffix(RelativeTo(stl_file, base), DXF))

\* DefaultOutput that appends the extension to the input path
DefaultOutputAppended(inp) == inp \o DXF

\* the output path convert_stl_to_dxf saves to when it is given none
DefaultOutput(inp) == Str(WithSuffix(PathOf(inp), DXF))

\* the output path main passes on for a single file when -o is a directory
InsideDir(out, inp) == Str(Join(PathOf(out), <<Name(WithSuffix(inp, DXF))>>))

\* main's test of a single input file
IsStlName(p) == Lower(Suffix(Name(p))) = STL

\* sys.exit(0 if success else 1)
SingleExit(success) == IF success THEN 0 ELSE 1

\* BatchExit that ignores the failed count
BatchExitIgnoresFailed(f) == 0

\* sys.exit(0 if failed == 0 else 1)
BatchExit(f) == IF f = 0 THEN 0 ELSE 1

Event(op, n, inp, out, ok) == [op |-> op, file |-> n, inp |-> inp, out |-> out, ok |-> ok]

-----------------------------------------------------------------------------
(* Initial states: the environment and the command line *)

InitLocals ==
    /\ pc = "main"
    /\ made = {}
    /\ mode = "none"
    /\ stl_files = <<>>
    /\ i = 0
    /\ successful = 0
    /\ failed = 0
    /\ input_path = <<>>
    /\ output_path = None
    /\ result = FALSE
    /\ tally = <<>>
    /\ exitCode = <<>>
    /\ log = <<>>

\* the output side: no -o, -o '' , -o out with out an existing directory, or
\* -o out with nothing at out
InitOutput ==
    /\ argOutput \in {None, <<>>, OUT_DIR}
    /\ dirs \in {{}, {<<OUT_DIR>>}}
    /\ argOutput # OUT_DIR => dirs = {}

\* the input is the directory "in", holding any tree of at most MaxEntries entries
InitDirectory ==
    /\ fs \in Trees
    /\ argInput = Str(<<IN_DIR>>)

\* the input is one file of the directory "in"
InitFile ==
    /\ \E n \in FileNames :
          /\ fs = {Entry(<<>>, n, "file")}
          /\ argInput = Str(<<IN_DIR, n>>)

\* the input names nothing, or something that is neither a file nor a directory
InitOther ==
    /\ fs \in {{}, {Entry(<<>>, FIFO, "other")}}
    /\ argInput = Str(<<IN_DIR, FIFO>>)

Init ==
    /\ InitLocals
    /\ InitOutput
    /\ libPresent \in BOOLEAN
    /\ caseSensitive \in BOOLEAN
    /\ noRecursive \in BOOLEAN
    /\ (InitDirectory \/ InitFile \/ InitOther)


-----------------------------------------------------------------------------
(* main *)

env == <<fs, libPresent, caseSensitive, argInput, argOutput, noRecursive>>

batchLocals == <<stl_files, i, successful, failed, tally>>

convertLocals == <<input_path, output_path, result>>

\* sys.exit(status)
Exit(status) ==
    /\ pc' = "exited"
    /\ exitCode' = <<status>>

\* convert_stl_to_dxf(inp, out) is entered, for the n-th file of a batch
CallConvert(n, inp, out) ==
    /\ pc' = "convert_import"
    /\ input_path' = inp
    /\ output_path' = out
    /\ log' = Append(log, Event("convert", n, inp, out, TRUE))

\* main, up to the call of one of the two components or to its own sys.exit(1)
Main ==
    /\ pc = "main"
    /\ LET p == PathOf(argInput) IN
       IF ~Exists(fs, dirs, p) THEN
           /\ Exit(1)
           /\ UNCHANGED <<mode, convertLocals, log>>
       ELSE IF IsFile(fs, p) THEN
           IF ~IsStlName(p) THEN
               /\ Exit(1)
               /\ UNCHANGED <<mode, convertLocals, log>>
           ELSE
               /\ mode' = "single"
               /\ CallConvert(i, Str(p),
                      IF Truthy(argOutput) /\ IsDir(fs, dirs, PathOf(argOutput))
                      THEN InsideDir(argOutput, p)
                      ELSE argOutput)
               /\ UNCHANGED <<result, exitCode>>
       ELSE IF IsDir(fs, dirs, p) THEN
           /\ mode' = "batch"
           /\ pc' = "process_directory"
           /\ UNCHANGED <<convertLocals, log, exitCode>>
       ELSE
           /\ Exit(1)
           /\ UNCHANGED <<mode, convertLocals, log>>
    /\ UNCHANGED <<env, dirs, made, batchLocals>>

\* main after process_directory returned: the summary and sys.exit
Report ==
    /\ pc = "report"
    /\ Exit(BatchExit(tally[2]))
    /\ UNCHANGED <<env, dirs, made, mode, batchLocals, convertLocals, log>>

-----------------------------------------------------------------------------
(* process_directory *)

\* return successful, failed
Return(s, f) ==
    /\ tally' = <<s, f>>
    /\ pc' = "report"

\* process_directory up to the loop: the directory test, the enumeration and the
\* test for an empty list
ProcessDirectory ==
    /\ pc = "process_directory"
    /\ LET base == PathOf(Str(PathOf(argInput))) IN
       IF ~IsDir(fs, dirs, base) THEN
           /\ Return(0, 0)
           /\ UNCHANGED <<stl_files, successful, failed>>
       ELSE \E files \in Listings(IF ~noRecursive
                                  THEN RGlob(fs, base, caseSensitive)
                                  ELSE Glob(fs, base, caseSensitive)) :
           /\ stl_files' = files
           /\ IF files = <<>> THEN
                  /\ Return(0, 0)
                  /\ UNCHANGED <<successful, failed>>
              ELSE
                  /\ successful' = 0
                  /\ failed' = 0
                  /\ pc' = "loop"
                  /\ UNCHANGED tally
    /\ UNCHANGED <<env, dirs, made, mode, i, convertLocals, exitCode, log>>

\* one iteration of the loop up to the call of the converter, or the return
\* after the last one
Loop ==
    /\ pc = "loop"
    /\ IF i < Len(stl_files) THEN
           LET stl_file == stl_files[i + 1]
               base     == PathOf(Str(PathOf(argInput)))
               out      == MirroredPath(argOutput, stl_file, base)
           IN  /\ i' = i + 1
               /\ IF Truthy(argOutput) THEN
                      /\ dirs' = Mkdir(dirs, Parent(out))
                      /\ made' = made \cup {Parent(out)}
                      /\ CallConvert(i + 1, Str(stl_file), Str(out))
                  ELSE
                      /\ UNCHANGED <<dirs, made>>
                      /\ CallConvert(i + 1, Str(stl_file), None)
               /\ UNCHANGED <<tally, result>>
       ELSE
           /\ Return(successful, failed)
           /\ UNCHANGED <<i, dirs, made, convertLocals, log>>
    /\ UNCHANGED <<env, mode, stl_files, successful, failed, exitCode>>

\* the converter returned to the loop: one of the two counters goes up
Count ==
    /\ pc = "convert_return"
    /\ mode = "batch"
    /\ IF result
       THEN successful' = successful + 1 /\ failed' = failed
       ELSE failed' = failed + 1 /\ successful' = successful
    /\ pc' = "loop"
    /\ log' = Append(log, Event("count", i, input_path, None, result))
    /\ UNCHANGED <<env, dirs, made, mode, stl_files, i, tally, convertLocals, exitCode>>

\* the converter returned to main: sys.exit(0 if success else 1)
SingleDone ==
    /\ pc = "convert_return"
    /\ mode = "single"
    /\ Exit(SingleExit(result))
    /\ UNCHANGED <<env, dirs, made, mode, batchLocals, convertLocals, log>>

-----------------------------------------------------------------------------
(* convert_stl_to_dxf *)

\* ImportLib with the import inside the handler of the conversion: a missing
\* library is one more failed file
ImportLibCaught ==
    /\ pc = "convert_import"
    /\ IF libPresent
       THEN pc' = "convert_load" /\ UNCHANGED result
       ELSE pc' = "convert_return" /\ result' = FALSE
    /\ UNCHANGED <<env, dirs, made, mode, batchLocals, input_path, output_path, exitCode, log>>

\* try: import pymeshlab / except ImportError: sys.exit(1).  SystemExit is no
\* Exception and no handler of the program catches it
ImportLib ==
    /\ pc = "convert_import"
    /\ IF libPresent
       THEN pc' = "convert_load" /\ UNCHANGED exitCode
       ELSE Exit(1)
    /\ UNCHANGED <<env, dirs, made, mode, batchLocals, convertLocals, log>>

\* LoadMesh with no handler around the load: the exception ends the process
LoadMeshPropagates ==
    /\ pc = "convert_load"
    /\ \E ok \in BOOLEAN :
          /\ log' = Append(log, Event("load", i, input_path, None, ok))
          /\ IF ok
             THEN pc' = "convert_save" /\ UNCHANGED <<result, exitCode>>
             ELSE Exit(1) /\ UNCHANGED result
    /\ UNCHANGED <<env, dirs, made, mode, batchLocals, input_path, output_path>>

\* LoadMesh with a handler around the load alone: the save is still tried
LoadMeshSwallowed ==
    /\ pc = "convert_load"
    /\ \E ok \in BOOLEAN :
          /\ log' = Append(log, Event("load", i, input_path, None, ok))
          /\ pc' = "convert_save"
          /\ UNCHANGED result
    /\ UNCHANGED <<env, dirs, made, mode, batchLocals, input_path, output_path, exitCode>>

\* ms.load_new_mesh(input_path) returns, or raises and the handler returns False
LoadMesh ==
    /\ pc = "convert_load"
    /\ \E ok \in BOOLEAN :
          /\ log' = Append(log, Event("load", i, input_path, None, ok))
          /\ IF ok
             THEN pc' = "convert_save" /\ UNCHANGED result
             ELSE pc' = "convert_return" /\ result' = FALSE
    /\ UNCHANGED <<env, dirs, made, mode, batchLocals, input_path, output_path, exitCode>>

\* the output path is settled, then ms.save_current_mesh(output_path) returns
\* and the converter returns True, or raises and the handler returns False
SaveMesh ==
    /\ pc = "convert_save"
    /\ \E ok \in BOOLEAN :
          /\ output_path' = IF output_path = None THEN DefaultOutput(input_path)
                            ELSE output_path
          /\ log' = Append(log, Event("save", i, input_path, output_path', ok))
          /\ result' = ok
          /\ pc' = "convert_return"
    /\ UNCHANGED <<env, dirs, made, mode, batchLocals, input_path, exitCode>>

-----------------------------------------------------------------------------

Next ==
    \/ Main
    \/ ProcessDirectory
    \/ Loop
    \/ Count
    \/ Report
    \/ SingleDone
    \/ ImportLib
    \/ LoadMesh
    \/ SaveMesh

Spec == Init /\ [][Next]_vars


-----------------------------------------------------------------------------
(* Vocabulary of the properties *)

Events(op) == {k \in 1..Len(log) : log[k].op = op}

\* a load or a save of the library raised at position k of the history
Raised(k) == log[k].op \in {"load", "save"} /\ ~log[k].ok

\* the files of the batch whose load or save raised
FilesRaised == {log[k].file : k \in {j \in 1..Len(log) : Raised(j)}}

\* process_directory has returned to main
Returned == tally # <<>>

\* the entries the chosen enumeration looks at: all of them, or the top level
InScope(e) == ~noRecursive \/ e.dir = <<>>

\* the files (not the directories) whose name matches the pattern
MatchingFiles ==
    {e \in fs : e.kind = "file" /\ InScope(e) /\ GlobMatch(e.name, caseSensitive)}

\* the str path of an entry of the input directory
FullPath(e) == Str(Join(PathOf(argInput), RelPath(e)))

\* the call of the converter for the file of event k
CallOf(k) == CHOOSE c \in Events("convert") : log[c].file = log[k].file

InputValid ==
    LET p == PathOf(argInput)
    IN  \/ IsFile(fs, p) /\ IsStlName(p)
        \/ IsDir(fs, dirs, p)

-----------------------------------------------------------------------------
(* C1 *)

\* C1: in a batch run a failure raised by a load or a save is caught: the
\* converter returns False for that file, the file is counted as failed exactly
\* once, the run goes on to every remaining file of the list, and no failure
\* ends the process before process_directory returns.
FailureIsContained ==
    /\ pc = "convert_return" => (result <=> ~Raised(Len(log)))
    /\ mode = "batch" /\ libPresent =>
        /\ \A k \in Events("count") :
              k > 1 /\ (log[k].ok <=> ~Raised(k - 1))
        /\ pc # "exited" \/ Returned
        /\ Returned /\ stl_files # <<>> =>
              /\ tally[2] = Cardinality(FilesRaised)
              /\ tally[1] + tally[2] = Len(stl_files)
              /\ \A n \in 1..Len(stl_files) :
                    \E c \in Events("convert") :
                        log[c].file = n /\ log[c].inp = Str(stl_files[n])

\* a batch of two files or more whose first file raised, run to the end
FailureThenMore ==
    /\ mode = "batch"
    /\ pc = "exited"
    /\ Len(stl_files) >= 2
    /\ 1 \in FilesRaised
    /\ \E c \in Events("convert") : log[c].file = Len(stl_files)

-----------------------------------------------------------------------------
(* C2 *)

\* C2: the exit status is 0 when the input is valid and every attempted
\* conversion succeeded; it is 1 when the input path does not exist, when a
\* single input file has no STL extension, and when a load or a save raised;
\* after a batch it is 0 exactly when the failed count is 0.
ExitStatus ==
    pc = "exited" =>
        /\ exitCode \in {<<0>>, <<1>>}
        /\ ~Exists(fs, dirs, PathOf(argInput)) => exitCode = <<1>>
        /\ IsFile(fs, PathOf(argInput)) /\ ~IsStlName(PathOf(argInput)) => exitCode = <<1>>
        /\ (\E k \in 1..Len(log) : Raised(k)) => exitCode = <<1>>
        /\ ( /\ InputValid
             /\ \A c \in Events("convert") :
                   \E k \in Events("save") : log[k].file = log[c].file /\ log[k].ok )
           => exitCode = <<0>>
        /\ mode = "batch" /\ Returned =>
              (exitCode = <<0>> <=> tally[2] = 0)

\* one of two files failed: successful = 1, failed = 1, exit status 1
OneOfTwoFailed ==
    /\ pc = "exited"
    /\ mode = "batch"
    /\ tally = <<1, 1>>
    /\ exitCode = <<1>>

-----------------------------------------------------------------------------
(* C3 *)

\* C3: the converter is called exactly once for each file matching the pattern
\* and for nothing else, and the returned pair sums to the number N of matching
\* files.
VisitsExactlyTheMatchingFiles ==
    mode = "batch" /\ libPresent =>
        /\ \A c \in Events("convert") :
              \E e \in MatchingFiles : log[c].inp = FullPath(e)
        /\ \A c, d \in Events("convert") : log[c].inp = log[d].inp => c = d
        /\ pc = "loop" => successful + failed = i
        /\ Returned =>
              /\ tally[1] + tally[2] = Cardinality(MatchingFiles)
              /\ \A e \in MatchingFiles :
                    \E c \in Events("convert") : log[c].inp = FullPath(e)

-----------------------------------------------------------------------------
(* C4 *)

\* C4: with an output directory, the output path handed to the converter lies
\* below the output directory and, relative to it, has the directory chain and
\* the stem of the input file relative to the input directory, and the
\* extension .dxf.
MirroredStructure ==
    mode = "batch" /\ Truthy(argOutput) =>
        \A c \in Events("convert") :
            LET out == PathOf(log[c].out)
                o   == RelativeTo(out, PathOf(argOutput))
                r   == RelativeTo(PathOf(log[c].inp), PathOf(argInput))
            IN  /\ log[c].out # None
                /\ IsPrefix(PathOf(argOutput), out)
                /\ Len(o) = Len(r)
                /\ Parent(o) = Parent(r)
                /\ Stem(Name(o)) = Stem(Name(r))
                /\ Suffix(Name(o)) = DXF
                /\ Parent(out) \in dirs

\* a file two directories down is converted into an output directory
MirroredDeepFile ==
    /\ mode = "batch"
    /\ Truthy(argOutput)
    /\ \E k \in Events("save") :
          /\ log[k].ok
          /\ Len(RelativeTo(PathOf(log[k].inp), PathOf(argInput))) = 3

-----------------------------------------------------------------------------
(* C5 *)

\* C5: when the converter is called without an output path, the path saved to
\* is the input path with the extension replaced by .dxf: the same directory,
\* the same stem, and for a name main accepts as STL the name with its last
\* four characters replaced by ".dxf".
DefaultOutputPath ==
    \A k \in Events("save") :
        log[CallOf(k)].out = None =>
            LET inp == PathOf(log[k].inp)
                out == PathOf(log[k].out)
            IN  /\ Parent(out) = Parent(inp)
                /\ Stem(Name(out)) = Stem(Name(inp))
                /\ Suffix(Name(out)) = DXF
                /\ IsStlName(inp) =>
                      Name(out) = SubSeq(Name(inp), 1, Len(Name(inp)) - Len(STL)) \o DXF

\* an upper-case STL file given alone, and a nested file of a batch, saved
\* without an output path
DefaultOutputUsed ==
    \E k \in Events("save") :
        /\ log[CallOf(k)].out = None
        /\ log[k].ok
        /\ \/ mode = "single" /\ Name(PathOf(log[k].inp)) = B_STL_UP
           \/ mode = "batch" /\ Len(PathOf(log[k].inp)) > 2

-----------------------------------------------------------------------------
(* C6 *)

\* C6: with no file matching the pattern, process_directory returns (0, 0), the
\* converter is not called, no directory is created and the exit status is 0.
NoMatchingFileIsNoError ==
    mode = "batch" /\ libPresent /\ MatchingFiles = {} =>
        /\ Events("convert") = {}
        /\ made = {}
        /\ Returned => tally = <<0, 0>>
        /\ pc = "exited" => exitCode = <<0>>

-----------------------------------------------------------------------------
(* C7 *)

\* C7: when pymeshlab cannot be imported, the first call of the converter ends
\* the process with status 1: no load, no save, no second call, nothing is
\* counted and process_directory never returns.
MissingLibraryExits ==
    ~libPresent =>
        /\ Events("load") = {} /\ Events("save") = {} /\ Events("count") = {}
        /\ Cardinality(Events("convert")) <= 1
        /\ Events("convert") # {} =>
              /\ pc \in {"convert_import", "exited"}
              /\ tally = <<>>
              /\ successful = 0 /\ failed = 0
              /\ pc = "exited" => exitCode = <<1>>

\* a batch of two files or more stopped at the first call, and a single file
MissingLibraryBatch ==
    /\ ~libPresent
    /\ mode = "batch"
    /\ Len(stl_files) >= 2
    /\ pc = "exited"

-----------------------------------------------------------------------------
(* C8 *)

\* C8: a save comes right after the successful load of the same file, a load
\* that raised is followed by no save of that file, and in a batch the load
\* and the save of file n happen when exactly n - 1 files have been counted.
LoadThenSave ==
    /\ \A k \in Events("save") :
          /\ k > 1
          /\ log[k - 1].op = "load" /\ log[k - 1].ok
          /\ log[k - 1].file = log[k].file /\ log[k - 1].inp = log[k].inp
    /\ \A k \in Events("load") :
          /\ k > 1
          /\ log[k - 1].op = "convert" /\ log[k - 1].file = log[k].file
          /\ ~log[k].ok =>
                \A j \in Events("save") : log[j].file # log[k].file
    /\ mode = "batch" =>
          \A k \in Events("load") \cup Events("save") \cup Events("convert") :
              Cardinality({c \in Events("count") : c < k}) = log[k].file - 1

\* the load of the first file raised and the second file was loaded and saved
FailedLoadThenNextFile ==
    /\ mode = "batch"
    /\ \E k \in Events("load") : log[k].file = 1 /\ ~log[k].ok
    /\ \E k \in Events("save") : log[k].file = 2

-----------------------------------------------------------------------------
(* C9 *)

\* C9: for a single input file, whenever -o is given the file saved lies in the
\* directory -o names and carries the input's name with the extension .dxf,
\* whether that directory exists or not.
SingleOutputIsInsideDirectory ==
    mode = "single" /\ Truthy(argOutput) =>
        \A k \in Events("save") :
            PathOf(log[k].out) =
                Join(PathOf(argOutput), <<Stem(Name(PathOf(log[k].inp))) \o DXF>>)

-----------------------------------------------------------------------------
(* C10 *)

\* C10: the files main accepts as STL when given alone are the files a batch
\* converts: every accepted file in reach of the enumeration is handed to the
\* converter, and everything handed to the converter is a file main accepts.
ModesAgreeOnStlFiles ==
    mode = "batch" /\ libPresent /\ Returned =>
        /\ \A e \in fs :
              e.kind = "file" /\ InScope(e) /\ IsStlName(RelPath(e)) =>
                  \E c \in Events("convert") : log[c].inp = FullPath(e)
        /\ \A c \in Events("convert") :
              /\ IsFile(fs, PathOf(log[c].inp))
              /\ IsStlName(PathOf(log[c].inp))

====
